---- MODULE Spec2Model ----
(***************************************************************************)
(* Booking conversation graph of patterns/booking: the BookingState that   *)
(* is threaded through the six nodes of BookingNodes, the two routing      *)
(* functions of create_booking_graph and the fixed edges between them.     *)
(*                                                                         *)
(* Representation of Python values:                                        *)
(*   - a user utterance is a tuple of one-character strings, so that       *)
(*     lower(), the substring tests and the time regular expression are    *)
(*     computed character by character;                                    *)
(*   - every other str is a TLA+ string, f-strings are built with \o;      *)
(*   - a dict is a function whose DOMAIN is the set of keys it holds;      *)
(*   - None is the value None below;                                       *)
(*   - module text is ASCII: the bullet U+2022 of the confirmation         *)
(*     question is written "*", the emoji U+1F389 is written "(U+1F389)".  *)
(***************************************************************************)
EXTENDS Integers, Sequences, FiniteSets, TLC

VARIABLES
    state,             \* the BookingState held by the graph's channels
    pc,                \* the node the executor runs next ("START"/"END": none in flight)
    trace,             \* the nodes executed so far in the current traversal
    entry,             \* the state the current traversal started from
    node_input,        \* the state received by the node executed last
    input_booking_data,\* the booking_data dict of node_input as that node left it
    answer_writers,    \* the nodes of this traversal that set a new non-null answer
    answer_clears,     \* how often this traversal reset answer to None
    reconfirm_needed   \* the time-unavailable reset happened and no affirmation since

vars == <<state, pc, trace, entry, node_input, input_booking_data, answer_writers,
          answer_clears, reconfirm_needed>>

\* Number of user turns of one conversation that are explored.
MaxTurns == 3

None == "<None>"

----------------------------------------------------------------------------
\* Python primitives used by the nodes

EmptyDict == [k \in {} |-> None]

DictGet(d, k, default) == IF k \in DOMAIN d THEN d[k] ELSE default

DictSet(d, k, v) == [x \in DOMAIN d \cup {k} |-> IF x = k THEN v ELSE d[x]]

\* Variant: the key is looked up but not removed.
DictPopKeeps(d, k) == d

DictPop(d, k) == [x \in DOMAIN d \ {k} |-> d[x]]

\* {v} inside an f-string
FString(v) == IF v = None THEN "None" ELSE v

\* bool(v) for an Optional[str]
Truthy(v) == v # None /\ v # ""

Digits == {"0","1","2","3","4","5","6","7","8","9"}

LowerLetters == {"a","b","c","d","e","f","g","h","i","j","k","l","m",
                 "n","o","p","q","r","s","t","u","v","w","x","y","z"}

UpperToLower ==
    ("A" :> "a") @@ ("B" :> "b") @@ ("C" :> "c") @@ ("D" :> "d") @@
    ("E" :> "e") @@ ("F" :> "f") @@ ("G" :> "g") @@ ("H" :> "h") @@
    ("I" :> "i") @@ ("J" :> "j") @@ ("K" :> "k") @@ ("L" :> "l") @@
    ("M" :> "m") @@ ("N" :> "n") @@ ("O" :> "o") @@ ("P" :> "p") @@
    ("Q" :> "q") @@ ("R" :> "r") @@ ("S" :> "s") @@ ("T" :> "t") @@
    ("U" :> "u") @@ ("V" :> "v") @@ ("W" :> "w") @@ ("X" :> "x") @@
    ("Y" :> "y") @@ ("Z" :> "z")

\* str.lower()
Lower(text) ==
    [i \in 1..Len(text) |->
        IF text[i] \in DOMAIN UpperToLower THEN UpperToLower[text[i]] ELSE text[i]]

\* needle in text
Contains(needle, text) ==
    \E i \in 1..(Len(text) - Len(needle) + 1) :
        SubSeq(text, i, i + Len(needle) - 1) = needle

\* "".join(chars): the str made of a tuple of characters
RECURSIVE Str(_)
Str(chars) == IF chars = <<>> THEN "" ELSE Head(chars) \o Str(Tail(chars))

\* sep.join(items)
RECURSIVE StrJoin(_, _)
StrJoin(sep, items) ==
    IF items = <<>> THEN ""
    ELSE IF Len(items) = 1 THEN items[1]
    ELSE items[1] \o sep \o StrJoin(sep, Tail(items))

----------------------------------------------------------------------------
\* re.search(r'\b([0-9]{1,2}):?([0-9]{2})?\b', text)

\* \w at position j (positions outside the text are not word characters)
IsWordAt(text, j) ==
    /\ j \in 1..Len(text)
    /\ text[j] \in Digits \cup LowerLetters \cup DOMAIN UpperToLower \cup {"_"}

\* \b between positions j-1 and j
WordBoundary(text, j) == IsWordAt(text, j - 1) # IsWordAt(text, j)

\* The ways the pattern can match at one start position, in the order the
\* backtracking matcher tries them: <<digits of group 1, ":" taken, group 2 taken>>
TimeAlternatives ==
    << <<2, 1, 1>>, <<2, 1, 0>>, <<2, 0, 1>>, <<2, 0, 0>>,
       <<1, 1, 1>>, <<1, 1, 0>>, <<1, 0, 1>>, <<1, 0, 0>> >>

TimeMatchesAt(text, i, alt) ==
    LET h == alt[1]
        c == alt[2]
        m == alt[3]
        e == i + h + c + 2 * m
    IN  /\ e - 1 <= Len(text)
        /\ WordBoundary(text, i)
        /\ \A j \in i..(i + h - 1) : text[j] \in Digits
        /\ c = 1 => text[i + h] = ":"
        /\ m = 1 => \A j \in (i + h + c)..(e - 1) : text[j] \in Digits
        /\ WordBoundary(text, e)

\* What re.search returns when nothing matches (Python's None)
NoMatch == [group1 |-> None, group2 |-> None]

\* The match object: group(1) and group(2) as str, group(2) = None when the
\* optional group did not take part; NoMatch when there is no match at all.
TimeSearch(text) ==
    LET starts == {i \in 1..Len(text) :
                      \E a \in 1..Len(TimeAlternatives) :
                          TimeMatchesAt(text, i, TimeAlternatives[a])}
    IN  IF starts = {} THEN NoMatch
        ELSE LET i == CHOOSE x \in starts : \A y \in starts : x <= y
                 a == CHOOSE x \in 1..Len(TimeAlternatives) :
                          /\ TimeMatchesAt(text, i, TimeAlternatives[x])
                          /\ \A y \in 1..(x - 1) :
                                 ~TimeMatchesAt(text, i, TimeAlternatives[y])
                 alt == TimeAlternatives[a]
                 g2 == i + alt[1] + alt[2]
             IN  [group1 |-> Str(SubSeq(text, i, i + alt[1] - 1)),
                  group2 |-> IF alt[3] = 1 THEN Str(SubSeq(text, g2, g2 + 1))
                             ELSE None]

----------------------------------------------------------------------------
\* Keywords of extract_booking_data_node

KwHaircut == <<"h","a","i","r","c","u","t">>
KwBeard == <<"b","e","a","r","d">>
KwStyling == <<"s","t","y","l","i","n","g">>
KwToday == <<"t","o","d","a","y">>
KwTomorrow == <<"t","o","m","o","r","r","o","w">>
KwDayAfterTomorrow ==
    <<"d","a","y"," ","a","f","t","e","r"," ","t","o","m","o","r","r","o","w">>

confirmation_words ==
    << <<"y","e","s">>, <<"p","e","r","f","e","c","t">>, <<"o","k">>,
       <<"c","o","n","f","i","r","m">> >>

\* Variant: the last slot of the day is missing from the table.
available_times_short == <<"9:00", "10:00", "11:00", "15:00", "16:00">>

available_times == <<"9:00", "10:00", "11:00", "15:00", "16:00", "17:00">>

----------------------------------------------------------------------------
\* BookingState and its messages

NoId == 0

\* HumanMessage as LangGraph Studio delivers it: content[0]["text"]
HumanMessage(text) ==
    [type |-> "human", id |-> NoId, content |-> <<[type |-> "text", text |-> text]>>]

AIMessage(content) == [type |-> "ai", id |-> NoId, content |-> content]

\* The largest id in use (ids stand for the uuid4 strings: a new one is unused)
MaxId(msgs) ==
    LET ids == {msgs[i].id : i \in 1..Len(msgs)} \cup {NoId}
    IN  CHOOSE m \in ids : \A n \in ids : m >= n

\* The message of msgs that carries id; the last one if several do
LastWithId(msgs, id) ==
    msgs[CHOOSE i \in 1..Len(msgs) :
             /\ msgs[i].id = id
             /\ \A k \in (i + 1)..Len(msgs) : msgs[k].id # id]

\* The merge loop of the reducer: a message of right whose id is in merged
\* replaces that message in place, any other is appended.
MergeById(left, right) ==
    LET leftIds == {left[j].id : j \in 1..Len(left)}
        rightIds == {right[i].id : i \in 1..Len(right)}
        replaced == [j \in 1..Len(left) |->
                        IF left[j].id \in rightIds
                        THEN LastWithId(right, left[j].id)
                        ELSE left[j]]
        firstNew == {i \in 1..Len(right) :
                        /\ right[i].id \notin leftIds
                        /\ \A k \in 1..(i - 1) : right[k].id # right[i].id}
        appended == [n \in 1..Cardinality(firstNew) |->
                        LastWithId(right,
                            right[CHOOSE i \in firstNew :
                                      Cardinality({k \in firstNew : k <= i}) = n].id)]
    IN  replaced \o appended

\* The reducer of the messages channel: a message without id gets a fresh
\* one, a message whose id is already in the channel replaces that message in
\* place, any other message is appended.
add_messages(left, right) ==
    LET base == MaxId(left \o right)
        withIds == [i \in 1..Len(right) |->
                       IF right[i].id = NoId
                       THEN [right[i] EXCEPT !.id = base + i]
                       ELSE right[i]]
    IN  MergeById(left, withIds)

\* The channels after a node returned the dict out: messages goes through its
\* reducer, every other key is overwritten.
ApplyUpdate(s, out) == [out EXCEPT !.messages = add_messages(s.messages, out.messages)]

InitialState ==
    [messages |-> <<>>,
     intent |-> None,
     booking_data |-> EmptyDict,
     booking_confirmed |-> FALSE,
     answer |-> None]

----------------------------------------------------------------------------
\* BookingNodes

\* Variant: a detected booking intent also withdraws an earlier confirmation.
detect_intent_node_resets(s) == [s EXCEPT !.intent = "book", !.booking_confirmed = FALSE]

detect_intent_node(s) == [s EXCEPT !.intent = "book"]

extract_service(booking_data, last_message) ==
    IF Contains(KwHaircut, last_message) THEN DictSet(booking_data, "service", "haircut")
    ELSE IF Contains(KwBeard, last_message) THEN DictSet(booking_data, "service", "beard trim")
    ELSE IF Contains(KwStyling, last_message) THEN DictSet(booking_data, "service", "styling")
    ELSE booking_data

extract_date(booking_data, last_message) ==
    IF Contains(KwToday, last_message)
    THEN DictSet(booking_data, "appointment_date", "today")
    ELSE IF Contains(KwTomorrow, last_message)
    THEN DictSet(booking_data, "appointment_date", "tomorrow")
    ELSE IF Contains(KwDayAfterTomorrow, last_message)
    THEN DictSet(booking_data, "appointment_date", "day after tomorrow")
    ELSE booking_data

\* Variant: an utterance without a time wipes the time collected before.
extract_time_or_clear(booking_data, last_message) ==
    LET time_match == TimeSearch(last_message)
    IN  IF time_match # NoMatch
        THEN LET hour == time_match.group1
                 minute == IF Truthy(time_match.group2) THEN time_match.group2 ELSE "00"
             IN  DictSet(booking_data, "appointment_time", hour \o ":" \o minute)
        ELSE DictPop(booking_data, "appointment_time")

extract_time(booking_data, last_message) ==
    LET time_match == TimeSearch(last_message)
    IN  IF time_match # NoMatch
        THEN LET hour == time_match.group1
                 minute == IF Truthy(time_match.group2) THEN time_match.group2 ELSE "00"
             IN  DictSet(booking_data, "appointment_time", hour \o ":" \o minute)
        ELSE booking_data

has_service(booking_data) == Truthy(DictGet(booking_data, "service", None))

has_date(booking_data) == Truthy(DictGet(booking_data, "appointment_date", None))

has_time(booking_data) == Truthy(DictGet(booking_data, "appointment_time", None))

\* any(word in last_message for word in confirmation_words)
says_confirmation(last_message) ==
    \E w \in 1..Len(confirmation_words) : Contains(confirmation_words[w], last_message)

\* Variant: the gate forgets to require the time.
extract_confirmation_without_time(booking_data, last_message, booking_confirmed) ==
    IF has_service(booking_data) /\ has_date(booking_data)
    THEN IF says_confirmation(last_message) THEN TRUE ELSE booking_confirmed
    ELSE booking_confirmed

extract_confirmation(booking_data, last_message, booking_confirmed) ==
    IF has_service(booking_data) /\ has_date(booking_data) /\ has_time(booking_data)
    THEN IF says_confirmation(last_message) THEN TRUE ELSE booking_confirmed
    ELSE booking_confirmed

\* state["messages"][-1].content[0]["text"].lower()
last_message_of(s) == Lower(s.messages[Len(s.messages)].content[1].text)

\* booking_data = state.get("booking_data", {}) is the dict of the state that
\* was passed in, not a copy, and the three extractions assign into it: this
\* is that dict when the node returns.
extract_booking_data_in_place(s) ==
    IF s.messages = <<>> THEN s.booking_data
    ELSE LET last_message == last_message_of(s)
         IN  extract_time(
                 extract_date(
                     extract_service(s.booking_data, last_message),
                     last_message),
                 last_message)

\* Variant: the confirmation gate looks at the booking as it was before the
\* fields of this utterance were merged in.
extract_booking_data_node_gate_before_merge(s) ==
    IF s.messages = <<>> THEN s
    ELSE [s EXCEPT
             !.booking_data = extract_booking_data_in_place(s),
             !.booking_confirmed =
                 extract_confirmation(s.booking_data, last_message_of(s),
                                      s.booking_confirmed)]

extract_booking_data_node(s) ==
    IF s.messages = <<>> THEN s
    ELSE LET last_message == last_message_of(s)
             booking_data == extract_booking_data_in_place(s)
         IN  [s EXCEPT
                 !.booking_data = booking_data,
                 !.booking_confirmed =
                     extract_confirmation(booking_data, last_message, s.booking_confirmed)]

\* Variant: without a time the node drafts no reply and leaves the state as
\* it is.
check_availability_node_silent_without_time(s) ==
    LET booking_data == s.booking_data
        appointment_date == DictGet(booking_data, "appointment_date", "date")
        appointment_time == DictGet(booking_data, "appointment_time", None)
    IN  IF ~Truthy(appointment_time) THEN s
        ELSE IF \E i \in 1..Len(available_times) : available_times[i] = appointment_time
        THEN [s EXCEPT !.answer =
                 "Perfect, I'm confirming your appointment:\n* Service: "
                 \o FString(DictGet(booking_data, "service", "service"))
                 \o "\n* Date: " \o FString(appointment_date)
                 \o "\n* Time: " \o appointment_time
                 \o "\n\nDo you confirm the booking?"]
        ELSE [s EXCEPT
                 !.booking_data = DictPop(booking_data, "appointment_time"),
                 !.answer =
                     "Sorry, " \o appointment_time \o " is not available on "
                     \o FString(appointment_date)
                     \o ". We have these times: " \o StrJoin(", ", available_times)
                     \o ". Which one do you prefer?"]

check_availability_node(s) ==
    LET booking_data == s.booking_data
        service == DictGet(booking_data, "service", "service")
        appointment_date == DictGet(booking_data, "appointment_date", "date")
        appointment_time == DictGet(booking_data, "appointment_time", None)
        times_text == StrJoin(", ", available_times)
    IN  IF Truthy(appointment_time)
        THEN IF \E i \in 1..Len(available_times) : available_times[i] = appointment_time
             THEN [s EXCEPT !.answer =
                      "Perfect, I'm confirming your appointment:\n* Service: "
                      \o FString(service)
                      \o "\n* Date: " \o FString(appointment_date)
                      \o "\n* Time: " \o appointment_time
                      \o "\n\nDo you confirm the booking?"]
             ELSE [s EXCEPT
                      !.booking_data = DictPop(booking_data, "appointment_time"),
                      !.answer =
                          "Sorry, " \o appointment_time \o " is not available on "
                          \o FString(appointment_date)
                          \o ". We have these times: " \o times_text
                          \o ". Which one do you prefer?"]
        ELSE [s EXCEPT !.answer =
                 "We have these available times for " \o FString(appointment_date) \o ": "
                 \o times_text \o ". Which one do you prefer?"]

\* Variant: the question is also appended to the transcript by the node itself.
ask_for_information_node_appends(s) ==
    [s EXCEPT
        !.messages = s.messages \o <<AIMessage("Hi! What service do you need?")>>,
        !.answer = "Hi! What service do you need? We have haircut, beard trim, and styling."]

ask_for_information_node(s) ==
    LET booking_data == s.booking_data
    IN  IF ~has_service(booking_data)
        THEN [s EXCEPT !.answer =
                 "Hi! What service do you need? We have haircut, beard trim, and styling."]
        ELSE IF ~has_date(booking_data)
        THEN [s EXCEPT !.answer =
                 "Perfect, a " \o booking_data["service"]
                 \o ". When do you need it? (today, tomorrow, day after tomorrow)"]
        ELSE [s EXCEPT !.answer = "Could you give me more details about your booking?"]

\* The finalization message of confirm_booking_node and of the fallback of
\* respond_user_node (the source text ends with a party-popper emoji, U+1F389).
FinalizationMessage(booking_data) ==
    "Excellent! Your " \o FString(DictGet(booking_data, "service", "service"))
    \o " appointment for " \o FString(DictGet(booking_data, "appointment_date", "date"))
    \o " at " \o FString(DictGet(booking_data, "appointment_time", "time"))
    \o " is confirmed. See you soon! (U+1F389)"

\* Variant: leaves the reply drafted by Availability Check in place.
confirm_booking_node_silent(s) == s

confirm_booking_node(s) == [s EXCEPT !.answer = FinalizationMessage(s.booking_data)]

\* Variant: the reply is delivered but left in answer.
respond_user_node_keeps_answer(s) ==
    [s EXCEPT !.messages = s.messages \o <<AIMessage(FString(s.answer))>>]

respond_user_node(s) ==
    LET answer ==
            IF Truthy(s.answer) THEN s.answer
            ELSE IF s.booking_confirmed THEN FinalizationMessage(s.booking_data)
            ELSE "How else can I help you today?"
    IN  [s EXCEPT
            !.messages = s.messages \o <<AIMessage(answer)>>,
            !.answer = None]

----------------------------------------------------------------------------
\* Routing functions of create_booking_graph

\* Variant: checks availability only once a time was given.
route_after_extraction_needs_time(s) ==
    IF has_service(s.booking_data) /\ has_date(s.booking_data) /\ has_time(s.booking_data)
    THEN "check_availability"
    ELSE "ask_for_information"

route_after_extraction(s) ==
    IF has_service(s.booking_data) /\ has_date(s.booking_data)
    THEN "check_availability"
    ELSE "ask_for_information"

\* Variant: finalizes as soon as a time is there, confirmed or not.
route_after_availability_unconfirmed(s) ==
    IF has_time(s.booking_data)
    THEN "confirm_booking"
    ELSE "respond_user"

route_after_availability(s) ==
    IF has_time(s.booking_data) /\ s.booking_confirmed
    THEN "confirm_booking"
    ELSE "respond_user"

----------------------------------------------------------------------------
\* The user utterances explored

Utterances ==
    { <<"I"," ","w","a","n","t"," ","a"," ","h","a","i","r","c","u","t"," ",
        "t","o","m","o","r","r","o","w">>,
      <<"1","0",":","0","0">>,
      <<"y","e","s">>,
      <<"1","2",":","0","0">>,
      <<"h","e","l","l","o">>,
      <<"Y","e","s",","," ","1","2",":","0","0">>,
      <<"b","e","a","r","d"," ","t","o","d","a","y"," ","a","t"," ","9">>,
      <<"B","o","o","k"," ","s","t","y","l","i","n","g">>,
      <<"d","a","y"," ","a","f","t","e","r"," ","t","o","m","o","r","r","o","w">> }

----------------------------------------------------------------------------
\* The compiled graph: one traversal per user turn

NodeNames ==
    {"detect_intent", "extract_booking_data", "check_availability",
     "ask_for_information", "confirm_booking", "respond_user"}

\* Availability Check is on its "time NOT available" branch in state s
TimeUnavailable(s) ==
    /\ has_time(s.booking_data)
    /\ \A i \in 1..Len(available_times) :
           available_times[i] # s.booking_data["appointment_time"]

\* The latest utterance of s affirms a booking that has service, date and time
AffirmsCompleteBooking(s) ==
    /\ s.messages # <<>>
    /\ has_service(s.booking_data) /\ has_date(s.booking_data) /\ has_time(s.booking_data)
    /\ says_confirmation(last_message_of(s))

Init ==
    /\ state = InitialState
    /\ pc = "START"
    /\ trace = <<>>
    /\ entry = InitialState
    /\ node_input = InitialState
    /\ input_booking_data = InitialState.booking_data
    /\ answer_writers = <<>>
    /\ answer_clears = 0
    /\ reconfirm_needed = FALSE

\* A new user turn arrives and the graph is invoked: START -> detect_intent
Advance(utterance) ==
    /\ pc \in {"START", "END"}
    /\ Len(state.messages) < 2 * MaxTurns
    /\ state' = [state EXCEPT
                    !.messages = add_messages(state.messages, <<HumanMessage(utterance)>>)]
    /\ pc' = "detect_intent"
    /\ trace' = <<>>
    /\ entry' = state'
    /\ node_input' = state'
    /\ input_booking_data' = state'.booking_data
    /\ answer_writers' = <<>>
    /\ answer_clears' = 0
    /\ UNCHANGED reconfirm_needed

\* The booking_data dict of the state s handed to node, once node returned:
\* only extract_booking_data_node writes into the dict it was given
\* (check_availability_node pops from a copy, the others only read).
BookingDataLeftBy(node, s) ==
    IF node = "extract_booking_data"
    THEN extract_booking_data_in_place(s)
    ELSE s.booking_data

\* The executor runs node on the current state; out is the dict it returned
\* and next the node the outgoing edge leads to.
RunNode(node, out, next) ==
    /\ state' = ApplyUpdate(state, out)
    /\ pc' = next
    /\ trace' = Append(trace, node)
    /\ node_input' = state
    /\ input_booking_data' = BookingDataLeftBy(node, state)
    /\ answer_writers' =
           IF state'.answer # None /\ state'.answer # state.answer
           THEN Append(answer_writers, node)
           ELSE answer_writers
    /\ answer_clears' =
           IF state.answer # None /\ state'.answer = None
           THEN answer_clears + 1
           ELSE answer_clears
    /\ reconfirm_needed' =
           IF node = "check_availability" /\ TimeUnavailable(state) THEN TRUE
           ELSE IF node = "extract_booking_data" /\ AffirmsCompleteBooking(state') THEN FALSE
           ELSE reconfirm_needed
    /\ UNCHANGED entry

DetectIntent ==
    /\ pc = "detect_intent"
    /\ RunNode("detect_intent", detect_intent_node(state), "extract_booking_data")

ExtractBookingData ==
    /\ pc = "extract_booking_data"
    /\ RunNode("extract_booking_data", extract_booking_data_node(state),
               route_after_extraction(
                   ApplyUpdate(state, extract_booking_data_node(state))))

CheckAvailability ==
    /\ pc = "check_availability"
    /\ RunNode("check_availability", check_availability_node(state),
               route_after_availability(
                   ApplyUpdate(state, check_availability_node(state))))

AskForInformation ==
    /\ pc = "ask_for_information"
    /\ RunNode("ask_for_information", ask_for_information_node(state), "respond_user")

ConfirmBooking ==
    /\ pc = "confirm_booking"
    /\ RunNode("confirm_booking", confirm_booking_node(state), "respond_user")

RespondUser ==
    /\ pc = "respond_user"
    /\ RunNode("respond_user", respond_user_node(state), "END")

Next ==
    \/ \E utterance \in Utterances : Advance(utterance)
    \/ DetectIntent
    \/ ExtractBookingData
    \/ CheckAvailability
    \/ AskForInformation
    \/ ConfirmBooking
    \/ RespondUser

Spec == Init /\ [][Next]_vars

----------------------------------------------------------------------------
\* Calling one routing function on an arbitrary BookingState

Absent == "<absent>"

\* The dict with the given values; a key given Absent is not in the dict
MkBookingData(service, appointment_date, appointment_time) ==
    LET given == [service |-> service,
                  appointment_date |-> appointment_date,
                  appointment_time |-> appointment_time]
    IN  [k \in {x \in DOMAIN given : given[x] # Absent} |-> given[k]]

UnitBookingData ==
    { MkBookingData(sv, dt, tm) :
          sv \in {Absent, None, "haircut", "beard trim", "styling"},
          dt \in {Absent, None, "today", "tomorrow"},
          tm \in {Absent, None, "10:00", "12:00"} }

UnitStates ==
    [messages : {<<>>},
     intent : {None, "book"},
     booking_data : UnitBookingData,
     booking_confirmed : BOOLEAN,
     answer : {None}]

UnitInit ==
    /\ state \in UnitStates
    /\ pc = "CALL"
    /\ trace = <<>>
    /\ entry = state
    /\ node_input = state
    /\ input_booking_data = state.booking_data
    /\ answer_writers = <<>>
    /\ answer_clears = 0
    /\ reconfirm_needed = FALSE

CallRouteAfterExtraction ==
    /\ pc = "CALL"
    /\ pc' = route_after_extraction(state)
    /\ trace' = <<"route_after_extraction">>
    /\ UNCHANGED <<state, entry, node_input, input_booking_data, answer_writers,
                   answer_clears, reconfirm_needed>>

CallRouteAfterAvailability ==
    /\ pc = "CALL"
    /\ pc' = route_after_availability(state)
    /\ trace' = <<"route_after_availability">>
    /\ UNCHANGED <<state, entry, node_input, input_booking_data, answer_writers,
                   answer_clears, reconfirm_needed>>

UnitNext == CallRouteAfterExtraction \/ CallRouteAfterAvailability

UnitSpec == UnitInit /\ [][UnitNext]_vars

----------------------------------------------------------------------------
\* Calling one node directly on an arbitrary BookingState: the state after
\* the call is the dict the node returned.

NodeBookingData ==
    { MkBookingData(sv, dt, tm) :
          sv \in {Absent, None, "haircut"},
          dt \in {Absent, None, "tomorrow"},
          tm \in {Absent, "10:00", "12:00"} }

NodeStates ==
    [messages : {<<>>} \cup {<<[HumanMessage(u) EXCEPT !.id = 1]>> : u \in Utterances},
     intent : {None},
     booking_data : NodeBookingData,
     booking_confirmed : BOOLEAN,
     answer : {None, "", "Draft reply"}]

NodeInit ==
    /\ state \in NodeStates
    /\ pc = "CALL"
    /\ trace = <<>>
    /\ entry = state
    /\ node_input = state
    /\ input_booking_data = state.booking_data
    /\ answer_writers = <<>>
    /\ answer_clears = 0
    /\ reconfirm_needed = FALSE

CallNode(node, out) ==
    /\ state' = out
    /\ pc' = "RETURN"
    /\ trace' = Append(trace, node)
    /\ node_input' = state
    /\ input_booking_data' = BookingDataLeftBy(node, state)
    /\ UNCHANGED <<entry, answer_writers, answer_clears, reconfirm_needed>>

CallDetectIntent ==
    /\ pc = "CALL"
    /\ CallNode("detect_intent", detect_intent_node(state))

\* detect_intent_node applied to its own result
CallDetectIntentAgain ==
    /\ pc = "RETURN"
    /\ trace = <<"detect_intent">>
    /\ CallNode("detect_intent", detect_intent_node(state))

CallExtractBookingData ==
    /\ pc = "CALL"
    /\ CallNode("extract_booking_data", extract_booking_data_node(state))

\* extract_booking_data_node applied to its own result, same latest utterance
CallExtractBookingDataAgain ==
    /\ pc = "RETURN"
    /\ trace = <<"extract_booking_data">>
    /\ CallNode("extract_booking_data", extract_booking_data_node(state))

CallCheckAvailability ==
    /\ pc = "CALL"
    /\ CallNode("check_availability", check_availability_node(state))

CallAskForInformation ==
    /\ pc = "CALL"
    /\ CallNode("ask_for_information", ask_for_information_node(state))

CallConfirmBooking ==
    /\ pc = "CALL"
    /\ CallNode("confirm_booking", confirm_booking_node(state))

CallRespondUser ==
    /\ pc = "CALL"
    /\ CallNode("respond_user", respond_user_node(state))

NodeNext ==
    \/ CallDetectIntent
    \/ CallDetectIntentAgain
    \/ CallExtractBookingData
    \/ CallExtractBookingDataAgain
    \/ CallCheckAvailability
    \/ CallAskForInformation
    \/ CallConfirmBooking
    \/ CallRespondUser

NodeSpec == NodeInit /\ [][NodeNext]_vars

----------------------------------------------------------------------------
\* Vocabulary of the properties

\* A booking field is present: the dict holds a value for it
Present(booking_data, k) == k \in DOMAIN booking_data /\ booking_data[k] # None

AllPresent(booking_data) ==
    /\ Present(booking_data, "service")
    /\ Present(booking_data, "appointment_date")
    /\ Present(booking_data, "appointment_time")

Last(seq) == seq[Len(seq)]

LastNode == IF trace = <<>> THEN "none" ELSE Last(trace)

Ran(node) == \E i \in 1..Len(trace) : trace[i] = node

InSlotList(time) == time \in {"9:00", "10:00", "11:00", "15:00", "16:00", "17:00"}

\* Availability Check has just run on a time that is not in the slot list
AfterTimeUnavailable ==
    /\ LastNode = "check_availability"
    /\ Present(node_input.booking_data, "appointment_time")
    /\ ~InSlotList(node_input.booking_data["appointment_time"])

----------------------------------------------------------------------------
\* C1: in every reachable state, at the end of every node, booking_confirmed
\* is never true while service, appointment_date or appointment_time is
\* absent from booking_data.
C1_ConfirmedOnlyWhenComplete ==
    state.booking_confirmed => AllPresent(state.booking_data)

\* C2: when Availability Check runs with an appointment_time that is not in
\* the slot list, the state it returns has appointment_time absent and
\* booking_confirmed false whatever it was on entry, service and
\* appointment_date unchanged, and answer set to the conflict reply.
C2_UnavailableTimeResetsBoth ==
    AfterTimeUnavailable =>
        /\ ~Present(state.booking_data, "appointment_time")
        /\ state.booking_confirmed = FALSE
        /\ Present(state.booking_data, "service")
        /\ state.booking_data["service"] = node_input.booking_data["service"]
        /\ Present(state.booking_data, "appointment_date")
        /\ state.booking_data["appointment_date"] =
               node_input.booking_data["appointment_date"]
        /\ state.answer =
               "Sorry, " \o node_input.booking_data["appointment_time"]
               \o " is not available on " \o node_input.booking_data["appointment_date"]
               \o ". We have these times: 9:00, 10:00, 11:00, 15:00, 16:00, 17:00"
               \o ". Which one do you prefer?"

\* C3: after the time-unavailable path was taken, no traversal reaches
\* Confirm Booking unless a later utterance affirmed while service, date and
\* time were all present.
C3_ReconfirmationAfterReset ==
    (pc = "confirm_booking" \/ Ran("confirm_booking")) => ~reconfirm_needed

\* C4: whenever Confirm Booking is about to execute, the state it receives has
\* service, appointment_date and appointment_time present and
\* booking_confirmed true; it is entered only from Availability Check, whose
\* routing selects it exactly when appointment_time is present and
\* booking_confirmed is true, and Respond-to-User otherwise.
C4_ConfirmBookingEntry ==
    /\ pc = "confirm_booking" =>
           /\ AllPresent(state.booking_data)
           /\ state.booking_confirmed
           /\ LastNode = "check_availability"
    /\ LastNode = "check_availability" =>
           pc = IF Present(state.booking_data, "appointment_time")
                   /\ state.booking_confirmed
                THEN "confirm_booking"
                ELSE "respond_user"

C4_Witness ==
    /\ pc = "confirm_booking"
    /\ LastNode = "check_availability"
    /\ state.booking_confirmed

\* C5: booking_confirmed changes from false to true only in a step of Data
\* Extraction, and only when service, date and time are all present after the
\* merge and the latest utterance contains a confirmation word; when either
\* condition fails Data Extraction leaves booking_confirmed as it was.
C5_ConfirmationGate ==
    [][ /\ (~state.booking_confirmed /\ state'.booking_confirmed) =>
               /\ pc = "extract_booking_data"
               /\ AllPresent(state'.booking_data)
               /\ \E w \in 1..Len(confirmation_words) :
                      Contains(confirmation_words[w],
                               Lower(Last(state.messages).content[1].text))
        /\ ( /\ pc = "extract_booking_data"
             /\ ~( /\ AllPresent(state'.booking_data)
                   /\ \E w \in 1..Len(confirmation_words) :
                          Contains(confirmation_words[w],
                                   Lower(Last(state.messages).content[1].text)) ) ) =>
               state'.booking_confirmed = state.booking_confirmed
      ]_vars

C5_Witness ==
    /\ LastNode = "extract_booking_data"
    /\ ~node_input.booking_confirmed
    /\ state.booking_confirmed
    /\ AllPresent(state.booking_data)

\* C6: route_after_extraction is a pure function of the state: it selects
\* Availability Check whenever service and appointment_date are both present,
\* whatever appointment_time and booking_confirmed are, and Ask-For-Information
\* whenever service or appointment_date is absent; the state is left as it was.
C6_RouterOne ==
    trace = <<"route_after_extraction">> =>
        /\ state = entry
        /\ ( Present(state.booking_data, "service")
             /\ Present(state.booking_data, "appointment_date") ) =>
               pc = "check_availability"
        /\ ( ~Present(state.booking_data, "service")
             \/ ~Present(state.booking_data, "appointment_date") ) =>
               pc = "ask_for_information"

C6_Witness ==
    /\ trace = <<"route_after_extraction">>
    /\ pc = "check_availability"
    /\ ~Present(state.booking_data, "appointment_time")
    /\ state.booking_confirmed

\* The longest common prefix of two transcripts is the shorter one
IsPrefix(a, b) == Len(a) <= Len(b) /\ SubSeq(b, 1, Len(a)) = a

\* C7: the transcript is append-only: no step changes or reorders the turns
\* already there, only Respond-to-User changes the transcript among the
\* nodes, and a traversal adds exactly one bot turn at the end of the turns
\* it started with.
C7_TranscriptAppendOnly ==
    [][ /\ IsPrefix(state.messages, state'.messages)
        /\ (pc \in NodeNames /\ pc # "respond_user") =>
               state'.messages = state.messages
        /\ pc = "respond_user" =>
               /\ Len(state'.messages) = Len(state.messages) + 1
               /\ Last(state'.messages).type = "ai"
        /\ pc' = "END" =>
               /\ Len(state'.messages) = Len(entry.messages) + 1
               /\ IsPrefix(entry.messages, state'.messages)
               /\ Last(state'.messages).type = "ai"
      ]_vars

C7_Witness ==
    /\ pc = "END"
    /\ Len(state.messages) = 4
    /\ state.messages[2].type = "ai"
    /\ state.messages[4].type = "ai"

\* C8 as stated: in every traversal answer is set to a non-null value by
\* exactly one node and cleared once by Respond-to-User, on every path.
C8_ReplySetOnce ==
    /\ pc = "respond_user" => Len(answer_writers) = 1
    /\ pc = "END" => (Len(answer_writers) = 1 /\ answer_clears = 1)

\* C8 amended: answer is cleared exactly once, by Respond-to-User, and is set
\* by exactly one node on the paths through Ask-For-Information and from
\* Availability Check straight to Respond-to-User; on the path Availability
\* Check -> Confirm Booking -> Respond-to-User it is set twice, Confirm Booking
\* overwriting the reply of Availability Check, and the bot turn carries the
\* reply set last.
C8_ReplySetByEachReplyNode ==
    /\ pc = "respond_user" =>
           /\ answer_clears = 0
           /\ state.answer # None
           /\ answer_writers =
                  IF Ran("confirm_booking")
                  THEN <<"check_availability", "confirm_booking">>
                  ELSE <<trace[3]>>
    /\ pc = "END" =>
           /\ answer_clears = 1
           /\ state.answer = None
           /\ Len(answer_writers) = IF Ran("confirm_booking") THEN 2 ELSE 1
           /\ Last(state.messages).content = node_input.answer

C8_Witness ==
    /\ pc = "END"
    /\ Ran("confirm_booking")
    /\ answer_writers = <<"check_availability", "confirm_booking">>
    /\ answer_clears = 1

\* The three ways through the graph
GraphPaths ==
    { <<"detect_intent", "extract_booking_data", "ask_for_information", "respond_user">>,
      <<"detect_intent", "extract_booking_data", "check_availability", "respond_user">>,
      <<"detect_intent", "extract_booking_data", "check_availability",
        "confirm_booking", "respond_user">> }

\* The nodes run so far, followed by the node that is due, if any
TraceAndDue == IF pc \in NodeNames THEN Append(trace, pc) ELSE trace

FollowsTopology ==
    /\ pc \in NodeNames \cup {"START", "END"}
    /\ \E path \in GraphPaths :
           /\ IsPrefix(TraceAndDue, path)
           /\ pc = "END" => trace = path
    /\ pc = "START" => trace = <<>>
    /\ Len(TraceAndDue) >= 3 =>
           TraceAndDue[3] =
               IF Present(state.booking_data, "service")
                  /\ Present(state.booking_data, "appointment_date")
               THEN "check_availability"
               ELSE "ask_for_information"

\* C9: every traversal follows the fixed topology and terminates: Intent
\* Detection, Data Extraction, then the one of Availability Check and
\* Ask-For-Information that the first routing function chose, Confirm Booking
\* only after Availability Check, and Respond-to-User exactly once as the last
\* node; no node runs twice or is skipped.  Termination: the position is
\* always a node of the graph or START/END, every step of a traversal runs
\* the node that is due and adds it to the nodes run, which never repeat and
\* are at most five, so the executor reaches END after at most five nodes.
C9_FixedTopology ==
    /\ []FollowsTopology
    /\ [][ /\ pc \in NodeNames => trace' = Append(trace, pc)
           /\ pc \in NodeNames => \A i \in 1..Len(trace) : trace[i] # pc
           /\ pc \in NodeNames => Len(trace') <= 5
           /\ pc \in NodeNames => pc' \in (NodeNames \ {pc}) \cup {"END"}
           /\ pc \in NodeNames => ((pc' = "END") <=> (pc = "respond_user"))
       ]_vars

C9_Witness ==
    /\ pc = "END"
    /\ trace = <<"detect_intent", "extract_booking_data", "check_availability",
                 "confirm_booking", "respond_user">>

\* The case of C10, read off the state the traversal started from: service,
\* date and a time of the slot list are present, and the new utterance holds
\* a confirmation word and nothing the extraction takes for a booking field.
C10_Case ==
    /\ entry.messages # <<>>
    /\ AllPresent(entry.booking_data)
    /\ InSlotList(entry.booking_data["appointment_time"])
    /\ LET utterance == Lower(Last(entry.messages).content[1].text)
       IN  /\ \E w \in 1..Len(confirmation_words) :
                  Contains(confirmation_words[w], utterance)
           /\ extract_service(EmptyDict, utterance) = EmptyDict
           /\ extract_date(EmptyDict, utterance) = EmptyDict
           /\ extract_time(EmptyDict, utterance) = EmptyDict

\* C10: a traversal started with service, date and an available time present,
\* on an utterance that affirms and brings no new booking field, sets
\* booking_confirmed, goes through Availability Check and Confirm Booking, and
\* the one bot turn it appends is the finalization message echoing that
\* service, date and time.
C10_SuccessfulFinalization ==
    (pc = "END" /\ C10_Case) =>
        /\ state.booking_confirmed
        /\ trace = <<"detect_intent", "extract_booking_data", "check_availability",
                     "confirm_booking", "respond_user">>
        /\ state.booking_data = entry.booking_data
        /\ Len(state.messages) = Len(entry.messages) + 1
        /\ IsPrefix(entry.messages, state.messages)
        /\ Last(state.messages).type = "ai"
        /\ Last(state.messages).content =
               "Excellent! Your " \o entry.booking_data["service"]
               \o " appointment for " \o entry.booking_data["appointment_date"]
               \o " at " \o entry.booking_data["appointment_time"]
               \o " is confirmed. See you soon! (U+1F389)"

C10_Witness ==
    /\ pc = "END"
    /\ C10_Case
    /\ ~entry.booking_confirmed
    /\ state.booking_confirmed

\* C11: Availability Check with service and date present changes nothing but
\* answer in its two non-conflict cases: without a time the reply lists all
\* slots in their fixed order, with a time of the slot list the reply asks
\* for confirmation echoing service, date and time; booking_data,
\* booking_confirmed and every other field are as they were.
C11_AvailabilityNoMutation ==
    ( /\ LastNode = "check_availability"
      /\ Present(node_input.booking_data, "service")
      /\ Present(node_input.booking_data, "appointment_date") ) =>
        /\ ~Present(node_input.booking_data, "appointment_time") =>
               /\ state.answer =
                      "We have these available times for "
                      \o node_input.booking_data["appointment_date"]
                      \o ": 9:00, 10:00, 11:00, 15:00, 16:00, 17:00"
                      \o ". Which one do you prefer?"
               /\ [state EXCEPT !.answer = node_input.answer] = node_input
        /\ ( /\ Present(node_input.booking_data, "appointment_time")
             /\ InSlotList(node_input.booking_data["appointment_time"]) ) =>
               /\ state.answer =
                      "Perfect, I'm confirming your appointment:\n* Service: "
                      \o node_input.booking_data["service"]
                      \o "\n* Date: " \o node_input.booking_data["appointment_date"]
                      \o "\n* Time: " \o node_input.booking_data["appointment_time"]
                      \o "\n\nDo you confirm the booking?"
               /\ [state EXCEPT !.answer = node_input.answer] = node_input

C11_Witness ==
    /\ LastNode = "check_availability"
    /\ ~Present(node_input.booking_data, "appointment_time")
    /\ Present(node_input.booking_data, "service")
    /\ state.booking_data = node_input.booking_data
    /\ state.answer # None

BookingKeys == {"service", "appointment_date", "appointment_time"}

\* The fields the extraction takes from an utterance on its own
DetectedIn(utterance) ==
    extract_time(extract_date(extract_service(EmptyDict, utterance), utterance),
                 utterance)

\* C12: booking fields accumulate: Data Extraction sets exactly the fields it
\* detected in the current utterance and leaves every other field as it was;
\* service and appointment_date, once present, stay present; and
\* appointment_time becomes absent only in a step of Availability Check on a
\* time that is not in the slot list.
C12_FieldsAccumulate ==
    [][ /\ pc = "extract_booking_data" =>
               LET detected == DetectedIn(Lower(Last(state.messages).content[1].text))
               IN  \A k \in BookingKeys :
                       IF k \in DOMAIN detected
                       THEN /\ k \in DOMAIN state'.booking_data
                            /\ state'.booking_data[k] = detected[k]
                       ELSE /\ (k \in DOMAIN state'.booking_data)
                                   <=> (k \in DOMAIN state.booking_data)
                            /\ k \in DOMAIN state.booking_data =>
                                   state'.booking_data[k] = state.booking_data[k]
        /\ Present(state.booking_data, "service") =>
               Present(state'.booking_data, "service")
        /\ Present(state.booking_data, "appointment_date") =>
               Present(state'.booking_data, "appointment_date")
        /\ ( /\ Present(state.booking_data, "appointment_time")
             /\ ~Present(state'.booking_data, "appointment_time") ) =>
               /\ pc = "check_availability"
               /\ ~InSlotList(state.booking_data["appointment_time"])
      ]_vars

C12_Witness ==
    /\ LastNode = "extract_booking_data"
    /\ AllPresent(node_input.booking_data)
    /\ state.booking_data = node_input.booking_data
    /\ Len(state.messages) >= 3

----------------------------------------------------------------------------
\* C13: Data Extraction is idempotent on a fixed utterance: for every state
\* and utterance, applying extract_booking_data_node to its own output (same
\* latest utterance) yields the same booking_data and the same
\* booking_confirmed as applying it once.  After the second direct call
\* node_input is the result of the first call and state that of the second.
ExtractedTwice == pc = "RETURN" /\ trace = <<"extract_booking_data", "extract_booking_data">>

C13_ExtractionIdempotent ==
    ExtractedTwice =>
        /\ state.booking_data = node_input.booking_data
        /\ state.booking_confirmed = node_input.booking_confirmed
        /\ state = node_input

\* The second call returned, and the first one had added a field and set the
\* confirmation ("Yes, 12:00" on a booking that lacked only the time).
C13_Witness ==
    /\ ExtractedTwice
    /\ ~has_time(entry.booking_data)
    /\ has_time(state.booking_data)
    /\ ~entry.booking_confirmed
    /\ state.booking_confirmed

----------------------------------------------------------------------------
\* The three replies of Ask-For-Information
ServiceQuestion == "Hi! What service do you need? We have haircut, beard trim, and styling."

DateQuestion(service) ==
    "Perfect, a " \o service \o ". When do you need it? (today, tomorrow, day after tomorrow)"

GenericClarification == "Could you give me more details about your booking?"

\* C14: the graph enters Ask-For-Information only in states where service or
\* appointment_date is absent; there the reply is the service question when
\* service is absent (even if the date is present), otherwise the date
\* question naming the known service.  The generic clarifying reply is what
\* the node returns exactly when both are present, and so the reply of no
\* traversal.
C14_AskForInformation ==
    /\ pc = "ask_for_information" =>
           ~(Present(state.booking_data, "service")
             /\ Present(state.booking_data, "appointment_date"))
    /\ LastNode = "ask_for_information" =>
           /\ state.answer =
                  IF ~Present(node_input.booking_data, "service")
                  THEN ServiceQuestion
                  ELSE DateQuestion(node_input.booking_data["service"])
           /\ state.answer # GenericClarification
    /\ \A booking_data \in NodeBookingData :
           ask_for_information_node(
               [InitialState EXCEPT !.booking_data = booking_data]).answer
                   = GenericClarification
           <=> /\ Present(booking_data, "service")
               /\ Present(booking_data, "appointment_date")
    /\ \A i \in 1..Len(state.messages) :
           state.messages[i].type = "ai" =>
               state.messages[i].content # GenericClarification

\* Ask-For-Information has just asked for the service although the date is
\* already known ("day after tomorrow" as the first utterance).
C14_Witness ==
    /\ LastNode = "ask_for_information"
    /\ ~Present(node_input.booking_data, "service")
    /\ Present(node_input.booking_data, "appointment_date")
    /\ state.answer = ServiceQuestion

----------------------------------------------------------------------------
\* The states Respond-to-User is called on outside a traversal: every booking
\* dict of NodeBookingData, both confirmed values, answer null, empty or set
RespondInputs ==
    { [InitialState EXCEPT !.booking_data = booking_data,
                           !.booking_confirmed = booking_confirmed,
                           !.answer = answer] :
          booking_data \in NodeBookingData,
          booking_confirmed \in BOOLEAN,
          answer \in {None, "", "Draft reply"} }

\* The text Respond-to-User has to deliver for s (an empty answer counts as
\* not set)
ReplyDue(s) ==
    IF s.answer # None /\ s.answer # "" THEN s.answer
    ELSE IF s.booking_confirmed THEN FinalizationMessage(s.booking_data)
    ELSE "How else can I help you today?"

\* C15: Respond-to-User appends exactly one bot turn whose text is answer
\* when it is set, otherwise the fallback (the finalization message if
\* booking_confirmed, else the generic help message), and returns answer
\* null; hence answer is null at the end of every traversal and at the start
\* of the next one.
C15_RespondUserContract ==
    /\ \A s \in RespondInputs :
           respond_user_node(s) =
               [s EXCEPT !.messages = s.messages \o <<AIMessage(ReplyDue(s))>>,
                         !.answer = None]
    /\ LastNode = "respond_user" =>
           /\ Len(state.messages) = Len(node_input.messages) + 1
           /\ IsPrefix(node_input.messages, state.messages)
           /\ Last(state.messages).type = "ai"
           /\ Last(state.messages).content = ReplyDue(node_input)
           /\ state.answer = None
    /\ pc \in {"START", "END", "detect_intent"} => state.answer = None

\* The second traversal has ended: it started with answer null, Respond-to-User
\* delivered the reply drafted in it and cleared answer again.
C15_Witness ==
    /\ pc = "END"
    /\ LastNode = "respond_user"
    /\ Len(state.messages) = 4
    /\ entry.answer = None
    /\ node_input.answer # None
    /\ Last(state.messages).content = node_input.answer
    /\ state.answer = None

----------------------------------------------------------------------------
\* C16: if Confirm Booking is invoked with service, appointment_date or
\* appointment_time absent, it does not guess a value for the missing field:
\* its reply is the generic clarifying reply, not a finalization message.
C16_ConfirmBookingFallsBack ==
    (LastNode = "confirm_booking" /\ ~AllPresent(node_input.booking_data)) =>
        /\ state.answer # FinalizationMessage(node_input.booking_data)
        /\ state.answer = GenericClarification

----------------------------------------------------------------------------
\* C17: nodes work by full-state replacement: no node modifies the state it
\* received.  After a node returned, the booking_data dict held by its input
\* state has the same keys and values as before the call; newly extracted
\* fields are in the returned state only.
C17_InputStateIntact ==
    LastNode \in NodeNames => input_booking_data = node_input.booking_data

----------------------------------------------------------------------------
\* The states Intent Detection is applied to twice: an intent already there
\* or not, every booking dict of NodeBookingData
DetectInputs ==
    { [InitialState EXCEPT !.intent = intent, !.booking_data = booking_data] :
          intent \in {None, "book", "cancel"},
          booking_data \in NodeBookingData }

\* C18: Intent Detection changes only intent, always to "book", so applying
\* it twice equals applying it once; Ask-For-Information and Confirm Booking
\* change only answer.  None of the three changes booking_data,
\* booking_confirmed or messages: in a traversal only Data Extraction and
\* Availability Check can make booking_data or booking_confirmed differ from
\* what the traversal started with.
C18_ReplyOnlyFrame ==
    [][ /\ pc = "detect_intent" => state' = [state EXCEPT !.intent = "book"]
        /\ pc \in {"ask_for_information", "confirm_booking"} =>
               /\ [state' EXCEPT !.answer = state.answer] = state
               /\ state'.answer # None
        /\ (pc \in NodeNames \ {"extract_booking_data", "check_availability"}) =>
               /\ state'.booking_data = state.booking_data
               /\ state'.booking_confirmed = state.booking_confirmed
        /\ (~Ran("extract_booking_data") /\ pc # "extract_booking_data") =>
               /\ state'.booking_data = entry'.booking_data
               /\ state'.booking_confirmed = entry'.booking_confirmed
        /\ \A s \in DetectInputs :
               detect_intent_node(detect_intent_node(s)) = detect_intent_node(s)
      ]_vars

\* Confirm Booking has run in a traversal whose Data Extraction set the
\* confirmation: it replaced the reply and left the rest as it was.
C18_Witness ==
    /\ LastNode = "confirm_booking"
    /\ trace[1] = "detect_intent"
    /\ state.intent = "book"
    /\ ~entry.booking_confirmed
    /\ state.booking_confirmed
    /\ state.answer # node_input.answer
    /\ [state EXCEPT !.answer = node_input.answer] = node_input

----------------------------------------------------------------------------
\* C19: a booking is only ever finalized for an available slot.  In every
\* traversal, whenever Confirm Booking executes, appointment_time is one of
\* the slot list, because Availability Check ran immediately before in the
\* same traversal and removes a time that is not in the list.
C19_FinalizedSlotAvailable ==
    /\ pc = "confirm_booking" =>
           /\ Len(trace) = 3 /\ trace[3] = "check_availability"
           /\ Present(state.booking_data, "appointment_time")
           /\ InSlotList(state.booking_data["appointment_time"])
    /\ LastNode = "confirm_booking" =>
           /\ Len(trace) = 4 /\ trace[3] = "check_availability"
           /\ Present(node_input.booking_data, "appointment_time")
           /\ InSlotList(node_input.booking_data["appointment_time"])
           /\ state.booking_data = node_input.booking_data
    /\ AfterTimeUnavailable =>
           /\ ~Present(state.booking_data, "appointment_time")
           /\ pc = "respond_user"

\* Confirm Booking has executed on the slot "10:00" in a conversation where
\* an unavailable time had been asked for and turned down before.
C19_Witness ==
    /\ LastNode = "confirm_booking"
    /\ trace[3] = "check_availability"
    /\ node_input.booking_data["appointment_time"] = "10:00"
    /\ \E i \in 1..Len(state.messages) :
           /\ state.messages[i].type = "ai"
           /\ state.messages[i].content =
                  "Sorry, 12:00 is not available on tomorrow. We have these times: "
                  \o "9:00, 10:00, 11:00, 15:00, 16:00, 17:00. Which one do you prefer?"

----------------------------------------------------------------------------
\* The three nodes with an edge to Respond-to-User
ReplyNodes == {"check_availability", "ask_for_information", "confirm_booking"}

HelpMessage == "How else can I help you today?"

\* The reply a node of ReplyNodes drafts on the booking dict booking_data,
\* called with answer null
ReplyDraftedBy(node, booking_data) ==
    LET s == [InitialState EXCEPT !.booking_data = booking_data]
    IN  IF node = "check_availability" THEN check_availability_node(s).answer
        ELSE IF node = "ask_for_information" THEN ask_for_information_node(s).answer
        ELSE confirm_booking_node(s).answer

\* C20: every traversal starts with answer null and reaches Respond-to-User
\* with answer non-null and non-empty, so the fallback branch of
\* respond_user_node is never taken: Respond-to-User is entered from
\* Availability Check, Ask-For-Information or Confirm Booking only, and each
\* of them drafts a non-empty reply on every one of its branches.
C20_FallbackNeverTaken ==
    /\ entry.answer = None
    /\ \A node \in ReplyNodes : \A booking_data \in NodeBookingData :
           /\ ReplyDraftedBy(node, booking_data) # None
           /\ ReplyDraftedBy(node, booking_data) # ""
    /\ pc = "respond_user" =>
           /\ LastNode \in ReplyNodes
           /\ state.answer # None
           /\ state.answer # ""
    /\ LastNode = "respond_user" =>
           /\ node_input.answer # None
           /\ node_input.answer # ""
           /\ Last(state.messages).content = node_input.answer
           /\ Last(state.messages).content # HelpMessage

\* Respond-to-User is entered straight from Availability Check, which listed
\* the slots because no time was given yet; answer was null when the
\* traversal started.
C20_Witness ==
    /\ pc = "respond_user"
    /\ LastNode = "check_availability"
    /\ ~Present(node_input.booking_data, "appointment_time")
    /\ node_input.answer = None
    /\ state.answer # None
    /\ state.answer # ""

====
